---- MODULE Spec2Model ----
(***************************************************************************)
(* Model of Sprints/Sprint1/mini_project.py: the data validation pipeline  *)
(* main() and its six stages, over bounded tables.                          *)
(*                                                                         *)
(* A table (pandas DataFrame) is [cols, rows]: the set of column names     *)
(* and the sequence of rows, each row a function from cols to cells.       *)
(* A cell is null (NaN), a string, or a number n/d in lowest terms.        *)
(* Floating point is modelled by exact rationals.                          *)
(***************************************************************************)
EXTENDS Integers, Sequences, FiniteSets, TLC

VARIABLES pc, df, loadResult, trace, critical, exitCode,
          schemaRes, nullRes, fullRes, keyRes, bizRes, scoreRes

vars == <<pc, df, loadResult, trace, critical, exitCode,
          schemaRes, nullRes, fullRes, keyRes, bizRes, scoreRes>>

\* ------------------------------------------------------------------------
\* Bounds
\* ------------------------------------------------------------------------
MaxRows == 3

\* ------------------------------------------------------------------------
\* Cells
\* ------------------------------------------------------------------------
Null == [kind |-> "null", s |-> "", n |-> 0, d |-> 1]
Str(s) == [kind |-> "str", s |-> s, n |-> 0, d |-> 1]
Num(n, d) == [kind |-> "num", s |-> "", n |-> n, d |-> d]

\* ------------------------------------------------------------------------
\* Exact rational arithmetic (stands for the float arithmetic of the code)
\* ------------------------------------------------------------------------
Abs(x) == IF x < 0 THEN -x ELSE x

RECURSIVE GCD(_, _)
GCD(a, b) == IF b = 0 THEN a ELSE GCD(b, a % b)

Rat(n, d) ==
    LET g == GCD(Abs(n), d)
    IN  <<n \div g, d \div g>>

RInt(i) == <<i, 1>>
RLt(a, b) == a[1] * b[2] < b[1] * a[2]
RLe(a, b) == a[1] * b[2] <= b[1] * a[2]
RMul(a, b) == Rat(a[1] * b[1], a[2] * b[2])
RDiv(a, b) == Rat(a[1] * b[2], a[2] * b[1])
RSub(a, b) ==
    LET l == (a[2] * b[2]) \div GCD(a[2], b[2])
    IN  Rat(a[1] * (l \div a[2]) - b[1] * (l \div b[2]), l)
RMin(a, b) == IF RLe(a, b) THEN a ELSE b
RMax(a, b) == IF RLe(a, b) THEN b ELSE a

\* ------------------------------------------------------------------------
\* Configuration
\* ------------------------------------------------------------------------
EXPECTED_SCHEMA ==
    [c \in {"Sprint", "Sprint_Name", "Phase", "Story_ID", "Story_Name", "Type",
            "Description", "Tasks", "Est_Hours", "Resources",
            "Acceptance_Criteria"} |->
        IF c = "Est_Hours" THEN "float64" ELSE "object"]

VALID_VALUES ==
    [Phase |-> {"Foundation", "Core Tools", "Capstone", "Revision",
                "Advanced Concepts", "Software Engineering",
                "Cloud & Infrastructure", "Interview Prep"},
     Type  |-> {"Setup", "Study", "Practice", "Design", "Implementation",
                "Documentation", "Interview Prep", "Job Search", "Project",
                "Study & Practice", "Revision"}]

MIN_EST_HOURS == <<1, 2>>
MAX_EST_HOURS == <<100, 1>>

\* ------------------------------------------------------------------------
\* Tables that pd.read_csv can return
\* ------------------------------------------------------------------------
CoreCols == {"Story_ID", "Phase", "Type", "Est_Hours"}
OtherCols == DOMAIN EXPECTED_SCHEMA \ CoreCols

\* Rows over the columns cols whose cell in column c is drawn from dom[c].
RowsOver(cols, dom) ==
    {r \in [cols -> UNION {dom[c] : c \in cols}] : \A c \in cols : r[c] \in dom[c]}

\* Tables whose column set is any non-empty subset of DOMAIN dom.
TablesOver(dom) ==
    UNION {UNION {{[cols |-> cs, rows |-> rs] : rs \in [1..n -> RowsOver(cs, dom)]}
                  : n \in 0..MaxRows}
           : cs \in SUBSET (DOMAIN dom) \ {{}}}

\* Keys and phases with nulls: null counts, full and key duplicates.
KeyDomain ==
    [Story_ID |-> {Null, Str("S1"), Str("S2")},
     Phase    |-> {Null, Str("Foundation")}]

\* Estimated hours around both bounds, null, and unparseable text.
HoursDomain ==
    [Story_ID  |-> {Str("S1")},
     Est_Hours |-> {Null, Num(-1, 2), Num(1, 2), Num(100, 1), Num(101, 1),
                    Str("TBD")}]

\* Allowed and disallowed enum values, in and out of range hours.
EnumDomain ==
    [Story_ID  |-> {Str("S1")},
     Phase     |-> {Str("Foundation"), Str("Bogus")},
     Type      |-> {Str("Setup"), Str("Bogus")},
     Est_Hours |-> {Num(1, 2), Num(101, 1)}]

\* Every expected column present.
FullDomain ==
    [c \in DOMAIN EXPECTED_SCHEMA |->
        CASE c = "Story_ID"  -> {Str("S1"), Str("S2")}
          [] c = "Phase"     -> {Str("Foundation")}
          [] c = "Type"      -> {Str("Setup")}
          [] c = "Est_Hours" -> {Num(1, 2), Num(3, 1), Num(101, 1)}
          [] OTHER           -> {Str("x")}]

FullTables ==
    UNION {{[cols |-> DOMAIN FullDomain, rows |-> rs]
            : rs \in [1..n -> {core @@ [c \in OtherCols |-> Str("x")]
                               : core \in RowsOver(CoreCols, FullDomain)}]}
           : n \in 0..MaxRows}

Tables ==
    TablesOver(KeyDomain) \cup TablesOver(HoursDomain)
        \cup TablesOver(EnumDomain) \cup FullTables

\* Ways pd.read_csv fails: FileNotFoundError, pandas.errors.EmptyDataError,
\* any other exception.
LoadFailures == {"FileNotFoundError", "EmptyDataError", "Exception"}

\* ------------------------------------------------------------------------
\* DataFrame helpers
\* ------------------------------------------------------------------------
NRows(t) == Len(t.rows)
Index(t) == 1..NRows(t)

\* str(df[col].dtype) as pd.read_csv infers it.
Dtype(t, c) ==
    IF NRows(t) = 0 THEN "object"
    ELSE IF \A i \in Index(t) : t.rows[i][c].kind = "null" THEN "float64"
    ELSE IF \E i \in Index(t) : t.rows[i][c].kind = "str" THEN "object"
    ELSE IF \E i \in Index(t) : t.rows[i][c].kind = "null" \/ t.rows[i][c].d # 1
         THEN "float64"
    ELSE "int64"

\* df[c].isnull().sum()
NullCount(t, c) == Cardinality({i \in Index(t) : t.rows[i][c].kind = "null"})

\* df.duplicated(subset=subset, keep=keep): NaN cells compare equal.
Duplicated(t, subset, keep) ==
    LET key(i) == [c \in subset |-> t.rows[i][c]]
    IN  {i \in Index(t) :
            \E j \in Index(t) :
                /\ j # i
                /\ key(j) = key(i)
                /\ (keep = "first" => j < i)}

\* f"{x:.1f}" of a non-negative x, in tenths: nearest tenth, ties to even
\* (no tie arises for tables of fewer than 16 rows).
Format1Truncated(x) == (10 * x[1]) \div x[2]
Format1(x) ==
    LET q == (10 * x[1]) \div x[2]
        r == (10 * x[1]) % x[2]
    IN  IF 2 * r > x[2] THEN q + 1
        ELSE IF 2 * r < x[2] THEN q
        ELSE IF q % 2 = 0 THEN q ELSE q + 1

\* ------------------------------------------------------------------------
\* Stage 1: validate_schema
\* ------------------------------------------------------------------------
\* `expected_type in actual_type` is a substring test; among the dtype names
\* object, float64 and int64 it holds exactly when the two names are equal.
validate_schema(t) ==
    LET missing_cols == DOMAIN EXPECTED_SCHEMA \ t.cols
        mismatched == {c \in DOMAIN EXPECTED_SCHEMA \cap t.cols :
                          EXPECTED_SCHEMA[c] # Dtype(t, c)}
        issues == Cardinality(missing_cols) + Cardinality(mismatched)
    IN  [verdict |-> IF issues = 0 THEN "PASSED" ELSE "FAILED",
         missing_cols |-> missing_cols,
         mismatched |-> mismatched,
         issues |-> issues]

\* ------------------------------------------------------------------------
\* Stage 2: check_nulls
\* ------------------------------------------------------------------------
check_nulls(t) ==
    LET cols_with_nulls == {c \in t.cols : NullCount(t, c) > 0}
        pct(c) == RMul(RDiv(RInt(NullCount(t, c)), RInt(NRows(t))), RInt(100))
    IN  [verdict |-> IF cols_with_nulls # {} THEN "FAILED" ELSE "PASSED",
         findings |-> {[col |-> c, count |-> NullCount(t, c),
                        pct_tenths |-> Format1(pct(c))] : c \in cols_with_nulls}]

\* ------------------------------------------------------------------------
\* Stage 3: check_full_duplicates
\* ------------------------------------------------------------------------
FullDupesMaskFirstOnly(t) == Duplicated(t, t.cols, "first")
FullDupesMask(t) == Duplicated(t, t.cols, "False")

check_full_duplicates(t) ==
    LET full_dupes_mask == FullDupesMask(t)
        n_full_dupes == Cardinality(full_dupes_mask)
    IN  [verdict |-> IF n_full_dupes > 0 THEN "FAILED" ELSE "PASSED",
         n_full_dupes |-> n_full_dupes,
         dupe_rows |-> full_dupes_mask]

\* ------------------------------------------------------------------------
\* Stage 4: check_key_duplicates
\* ------------------------------------------------------------------------
\* df[mask]['Story_ID'].value_counts(): counts per value, NaN dropped.
ValueCounts(t, mask, c) ==
    {[value |-> v, count |-> Cardinality({i \in mask : t.rows[i][c] = v})]
        : v \in {t.rows[i][c] : i \in mask} \ {Null}}

KeyDuplicatesChecked(t) ==
    LET key_dupes_mask == Duplicated(t, {"Story_ID"}, "False")
        n_key_dupes == Cardinality(key_dupes_mask)
    IN  [verdict |-> IF n_key_dupes > 0 THEN "FAILED" ELSE "PASSED",
         n_key_dupes |-> n_key_dupes,
         findings |-> ValueCounts(t, key_dupes_mask, "Story_ID"),
         dupe_rows |-> key_dupes_mask]

check_key_duplicatesNoSkip(t) ==
    IF "Story_ID" \notin t.cols
    THEN [verdict |-> "PASSED", n_key_dupes |-> 0, findings |-> {},
          dupe_rows |-> {}]
    ELSE KeyDuplicatesChecked(t)

check_key_duplicates(t) ==
    IF "Story_ID" \notin t.cols
    THEN [verdict |-> "SKIPPED", n_key_dupes |-> 0, findings |-> {},
          dupe_rows |-> {}]
    ELSE KeyDuplicatesChecked(t)

\* ------------------------------------------------------------------------
\* Stage 5: validate_business_logic
\* ------------------------------------------------------------------------
\* (x < MIN_EST_HOURS) | (x > MAX_EST_HOURS) on one cell; NaN compares False.
IsInvalidHoursInclusive(v) ==
    /\ v.kind = "num"
    /\ (RLe(<<v.n, v.d>>, MIN_EST_HOURS) \/ RLe(MAX_EST_HOURS, <<v.n, v.d>>))
IsInvalidHours(v) ==
    /\ v.kind = "num"
    /\ (RLt(<<v.n, v.d>>, MIN_EST_HOURS) \/ RLt(MAX_EST_HOURS, <<v.n, v.d>>))

\* Comparing an object column holding a str with a float raises TypeError.
HoursIsText(t) == \E i \in Index(t) : t.rows[i]["Est_Hours"].kind = "str"

InvalidHours(t) == {i \in Index(t) : IsInvalidHours(t.rows[i]["Est_Hours"])}

\* ~df[c].isin(VALID_VALUES[c])
InvalidEnum(t, c) ==
    {i \in Index(t) :
        ~(t.rows[i][c].kind = "str" /\ t.rows[i][c].s \in VALID_VALUES[c])}

\* The three sub-checks in order. A sub-check that finds violations reads
\* row['Story_ID'] for each of them, which raises KeyError when the table has
\* no Story_ID column; an exception ends the stage before its verdict.
validate_business_logic(t) ==
    LET hasKey == "Story_ID" \in t.cols
        hasHours == "Est_Hours" \in t.cols
        hasPhase == "Phase" \in t.cols
        hasType == "Type" \in t.cols
        typeErr == hasHours /\ HoursIsText(t)
        invalid_hours == IF hasHours /\ ~typeErr THEN InvalidHours(t) ELSE {}
        keyErr1 == invalid_hours # {} /\ ~hasKey
        stop1 == typeErr \/ keyErr1
        invalid_phases == IF hasPhase /\ ~stop1 THEN InvalidEnum(t, "Phase") ELSE {}
        keyErr2 == invalid_phases # {} /\ ~hasKey
        stop2 == stop1 \/ keyErr2
        invalid_types == IF hasType /\ ~stop2 THEN InvalidEnum(t, "Type") ELSE {}
        keyErr3 == invalid_types # {} /\ ~hasKey
        raised == stop2 \/ keyErr3
        issues_found == invalid_hours # {} \/ invalid_phases # {} \/ invalid_types # {}
    IN  [verdict |-> IF raised THEN "RAISED"
                     ELSE IF issues_found THEN "FAILED" ELSE "PASSED",
         error |-> IF typeErr THEN "TypeError"
                   ELSE IF raised THEN "KeyError" ELSE "none",
         ran |-> (IF hasHours THEN {"Est_Hours"} ELSE {})
                    \cup (IF hasPhase /\ ~stop1 THEN {"Phase"} ELSE {})
                    \cup (IF hasType /\ ~stop2 THEN {"Type"} ELSE {}),
         filtered |-> (IF hasHours /\ ~typeErr THEN {"Est_Hours"} ELSE {})
                    \cup (IF hasPhase /\ ~stop1 THEN {"Phase"} ELSE {})
                    \cup (IF hasType /\ ~stop2 THEN {"Type"} ELSE {}),
         invalid_hours |-> invalid_hours,
         invalid_phases |-> invalid_phases,
         invalid_types |-> invalid_types]

\* ------------------------------------------------------------------------
\* Stage 6: calculate_data_quality_score
\* ------------------------------------------------------------------------
\* min(cap, ratio / divisor)
DeductionMax(cap, ratio, divisor) == RMax(RInt(cap), RDiv(ratio, divisor))
Deduction(cap, ratio, divisor) == RMin(RInt(cap), RDiv(ratio, divisor))

\* (count / total) * 100
Ratio(count, total) == RMul(RDiv(RInt(count), RInt(total)), RInt(100))

Rating(score) ==
    IF RLe(RInt(90), score) THEN "EXCELLENT"
    ELSE IF RLe(RInt(70), score) THEN "GOOD"
    ELSE IF RLe(RInt(50), score) THEN "FAIR (needs work)"
    ELSE "POOR (critical issues)"

calculate_data_quality_score(t) ==
    LET hasPhase == "Phase" \in t.cols
        hasHours == "Est_Hours" \in t.cols
        total_cells == NRows(t) * Cardinality(t.cols)
        null_cells == Cardinality({ic \in Index(t) \X t.cols :
                                      t.rows[ic[1]][ic[2]].kind = "null"})
        null_ratio == IF total_cells > 0 THEN Ratio(null_cells, total_cells)
                      ELSE RInt(0)
        null_deduction == Deduction(20, null_ratio, RInt(5))
        dupe_ratio == IF NRows(t) > 0
                      THEN Ratio(Cardinality(Duplicated(t, t.cols, "first")), NRows(t))
                      ELSE RInt(0)
        dupe_deduction == Deduction(15, dupe_ratio, <<667, 100>>)
        \* len(...) / len(df) is an int division: ZeroDivisionError on 0 rows
        zeroDiv == NRows(t) = 0 /\ (hasPhase \/ hasHours)
        \* the Est_Hours comparison is reached only past the Phase division
        typeErr == hasHours /\ HoursIsText(t)
        invalid_phase_count == Cardinality(InvalidEnum(t, "Phase"))
        phase_deduction == Deduction(15, Ratio(invalid_phase_count, NRows(t)),
                                     <<667, 100>>)
        invalid_hours_count == Cardinality(InvalidHours(t))
        hours_deduction == Deduction(10, Ratio(invalid_hours_count, NRows(t)),
                                     RInt(10))
        s1 == RSub(RInt(100), null_deduction)
        s2 == RSub(s1, dupe_deduction)
        s3 == IF hasPhase THEN RSub(s2, phase_deduction) ELSE s2
        s4 == IF hasHours THEN RSub(s3, hours_deduction) ELSE s3
        score == RMax(RInt(0), s4)
    IN  IF typeErr THEN [verdict |-> "RAISED", error |-> "TypeError"]
        ELSE IF zeroDiv THEN [verdict |-> "RAISED", error |-> "ZeroDivisionError"]
        ELSE [verdict |-> "CALCULATED",
              error |-> "none",
              score |-> score,
              score_tenths |-> Format1(score),
              rating |-> Rating(score),
              deductions |->
                  [k \in {"NULLs", "Duplicates"}
                         \cup (IF hasPhase THEN {"Invalid Phase"} ELSE {})
                         \cup (IF hasHours THEN {"Invalid Hours"} ELSE {}) |->
                      CASE k = "NULLs" -> null_deduction
                        [] k = "Duplicates" -> dupe_deduction
                        [] k = "Invalid Phase" -> phase_deduction
                        [] k = "Invalid Hours" -> hours_deduction],
              invalid_hours_count |-> IF hasHours THEN invalid_hours_count ELSE 0]

\* ------------------------------------------------------------------------
\* main
\* ------------------------------------------------------------------------
NotRun == [verdict |-> "NONE"]
NoTable == [cols |-> {}, rows |-> <<>>]

Stages == <<"validate_schema", "check_nulls", "check_full_duplicates",
            "check_key_duplicates", "validate_business_logic",
            "calculate_data_quality_score">>

\* The logger.critical calls of each except clause of main.
LoadFailureMessagesSame(kind) ==
    IF kind \in {"FileNotFoundError", "EmptyDataError"}
    THEN <<"ERROR: File not found!">>
    ELSE <<"UNEXPECTED ERROR">>
LoadFailureMessages(kind) ==
    CASE kind = "FileNotFoundError" ->
            <<"ERROR: File not found!",
              "Make sure test_data.csv is in the current directory.">>
      [] kind = "EmptyDataError" -> <<"ERROR: File is empty!">>
      [] OTHER -> <<"UNEXPECTED ERROR">>

Init ==
    /\ pc = "load"
    /\ df = NoTable
    /\ loadResult = "pending"
    /\ trace = <<>>
    /\ critical = <<>>
    /\ exitCode = 0
    /\ schemaRes = NotRun
    /\ nullRes = NotRun
    /\ fullRes = NotRun
    /\ keyRes = NotRun
    /\ bizRes = NotRun
    /\ scoreRes = NotRun

\* pd.read_csv returns a table.
LoadOk ==
    /\ pc = "load"
    /\ \E t \in Tables : df' = t
    /\ loadResult' = "ok"
    /\ pc' = Stages[1]
    /\ UNCHANGED <<trace, critical, exitCode, schemaRes, nullRes, fullRes,
                   keyRes, bizRes, scoreRes>>

\* pd.read_csv raises: the matching except clause logs and calls sys.exit(1).
LoadFail ==
    /\ pc = "load"
    /\ \E kind \in LoadFailures :
        /\ loadResult' = kind
        /\ critical' = critical \o LoadFailureMessages(kind)
    /\ exitCode' = 1
    /\ pc' = "exited"
    /\ UNCHANGED <<df, trace, schemaRes, nullRes, fullRes, keyRes, bizRes,
                   scoreRes>>

\* Control after stage number k returned res: an exception raised inside a
\* stage reaches `except Exception` of main.
AfterStage(k, res) ==
    /\ trace' = Append(trace, Stages[k])
    /\ IF res.verdict = "RAISED"
       THEN /\ critical' = critical \o LoadFailureMessages("Exception")
            /\ exitCode' = 1
            /\ pc' = "exited"
       ELSE /\ UNCHANGED <<critical, exitCode>>
            /\ pc' = IF k < Len(Stages) THEN Stages[k + 1] ELSE "report"

Call_validate_schema ==
    /\ pc = Stages[1]
    /\ schemaRes' = validate_schema(df)
    /\ AfterStage(1, schemaRes')
    /\ UNCHANGED <<df, loadResult, nullRes, fullRes, keyRes, bizRes, scoreRes>>

Call_check_nulls ==
    /\ pc = Stages[2]
    /\ nullRes' = check_nulls(df)
    /\ AfterStage(2, nullRes')
    /\ UNCHANGED <<df, loadResult, schemaRes, fullRes, keyRes, bizRes, scoreRes>>

Call_check_full_duplicates ==
    /\ pc = Stages[3]
    /\ fullRes' = check_full_duplicates(df)
    /\ AfterStage(3, fullRes')
    /\ UNCHANGED <<df, loadResult, schemaRes, nullRes, keyRes, bizRes, scoreRes>>

Call_check_key_duplicates ==
    /\ pc = Stages[4]
    /\ keyRes' = check_key_duplicates(df)
    /\ AfterStage(4, keyRes')
    /\ UNCHANGED <<df, loadResult, schemaRes, nullRes, fullRes, bizRes, scoreRes>>

Call_validate_business_logic ==
    /\ pc = Stages[5]
    /\ bizRes' = validate_business_logic(df)
    /\ AfterStage(5, bizRes')
    /\ UNCHANGED <<df, loadResult, schemaRes, nullRes, fullRes, keyRes, scoreRes>>

Call_calculate_data_quality_score ==
    /\ pc = Stages[6]
    /\ scoreRes' = calculate_data_quality_score(df)
    /\ AfterStage(6, scoreRes')
    /\ UNCHANGED <<df, loadResult, schemaRes, nullRes, fullRes, keyRes, bizRes>>

\* logger.info("VALIDATION PIPELINE COMPLETED"); main returns.
Complete ==
    /\ pc = "report"
    /\ pc' = "done"
    /\ UNCHANGED <<df, loadResult, trace, critical, exitCode, schemaRes,
                   nullRes, fullRes, keyRes, bizRes, scoreRes>>

Next ==
    \/ LoadOk
    \/ LoadFail
    \/ Call_validate_schema
    \/ Call_check_nulls
    \/ Call_check_full_duplicates
    \/ Call_check_key_duplicates
    \/ Call_validate_business_logic
    \/ Call_calculate_data_quality_score
    \/ Complete

Spec == Init /\ [][Next]_vars

\* ------------------------------------------------------------------------
\* Properties
\* ------------------------------------------------------------------------
Identical(i, j) == \A c \in df.cols : df.rows[i][c] = df.rows[j][c]

\* C1: every successfully loaded table runs the six stages once, in order,
\* and the run reports completion without a non-zero exit.
C1_LoadedTableCompletes ==
    loadResult = "ok" =>
        /\ exitCode = 0
        /\ pc # "exited"
        /\ trace = SubSeq(Stages, 1, Len(trace))
        /\ (pc \in {"report", "done"} => trace = Stages)

\* C2: a load failure logs the critical message of its kind, exits non-zero
\* and runs no stage; the three kinds have distinct messages.
C2_LoadFailureAborts ==
    loadResult \in LoadFailures =>
        /\ pc = "exited"
        /\ exitCode # 0
        /\ trace = <<>>
        /\ \A res \in {schemaRes, nullRes, fullRes, keyRes, bizRes, scoreRes} :
              res.verdict = "NONE"
        /\ critical # <<>>
        /\ (loadResult = "FileNotFoundError" <=> critical[1] = "ERROR: File not found!")
        /\ (loadResult = "EmptyDataError" <=> critical[1] = "ERROR: File is empty!")
        /\ (loadResult = "Exception" <=> critical[1] = "UNEXPECTED ERROR")

C2_Witness ==
    /\ loadResult = "EmptyDataError"
    /\ pc = "exited"
    /\ critical = <<"ERROR: File is empty!">>

\* C3: calculate_data_quality_score always completes with a score and a
\* rating, and on zero rows every deduction is 0.
C3_ScoreNeverFails ==
    trace # <<>> /\ trace[Len(trace)] = Stages[6] =>
        /\ scoreRes.verdict = "CALCULATED"
        /\ (NRows(df) = 0 =>
              \A k \in DOMAIN scoreRes.deductions : scoreRes.deductions[k] = <<0, 1>>)

\* A table with no null cell, no two identical rows, every Phase in the
\* allow-list and every Est_Hours within [0.5, 100].
CleanTable ==
    /\ \A i \in Index(df) : \A c \in df.cols : df.rows[i][c].kind # "null"
    /\ \A i, j \in Index(df) : i # j => ~Identical(i, j)
    /\ "Phase" \in df.cols =>
          \A i \in Index(df) : df.rows[i]["Phase"].s \in VALID_VALUES.Phase
    /\ "Est_Hours" \in df.cols =>
          \A i \in Index(df) :
              /\ df.rows[i]["Est_Hours"].kind = "num"
              /\ 2 * df.rows[i]["Est_Hours"].n >= df.rows[i]["Est_Hours"].d
              /\ df.rows[i]["Est_Hours"].n <= 100 * df.rows[i]["Est_Hours"].d

\* C4: a produced score lies in [0, 100]; a clean table with at least one row
\* scores exactly 100.0 with rating EXCELLENT.
C4_ScoreRange ==
    scoreRes.verdict = "CALCULATED" =>
        /\ scoreRes.score[1] >= 0
        /\ scoreRes.score[1] <= 100 * scoreRes.score[2]
        /\ (NRows(df) >= 1 /\ CleanTable =>
              /\ scoreRes.score = <<100, 1>>
              /\ scoreRes.score_tenths = 1000
              /\ scoreRes.rating = "EXCELLENT")

C4_Witness ==
    /\ scoreRes.verdict = "CALCULATED"
    /\ NRows(df) >= 2
    /\ {"Phase", "Est_Hours"} \subseteq df.cols
    /\ CleanTable
    /\ scoreRes.rating = "EXCELLENT"

\* Number of rows whose Story_ID cell is v.
KeyOccurrences(v) == Cardinality({i \in Index(df) : df.rows[i]["Story_ID"] = v})

\* C5: with the Story_ID column present, every value (null included) shared
\* by k >= 2 rows yields FAILED and a finding naming it with count k; the
\* verdict is PASSED iff no value is shared.
C5_KeyDuplicatesReported ==
    keyRes.verdict # "NONE" /\ "Story_ID" \in df.cols =>
        /\ \A i \in Index(df) :
              LET v == df.rows[i]["Story_ID"]
              IN  KeyOccurrences(v) >= 2 =>
                    /\ keyRes.verdict = "FAILED"
                    /\ [value |-> v, count |-> KeyOccurrences(v)] \in keyRes.findings
        /\ (keyRes.verdict = "PASSED" <=>
              \A i \in Index(df) : KeyOccurrences(df.rows[i]["Story_ID"]) < 2)

\* C6: validate_business_logic always ends with a verdict, runs exactly the
\* sub-checks whose column is present, and passes iff none found a violation.
C6_BusinessLogicVerdict ==
    bizRes.verdict # "NONE" =>
        /\ bizRes.verdict \in {"PASSED", "FAILED"}
        /\ bizRes.ran = df.cols \cap {"Est_Hours", "Phase", "Type"}
        /\ (bizRes.verdict = "PASSED" <=>
              /\ bizRes.invalid_hours = {}
              /\ bizRes.invalid_phases = {}
              /\ bizRes.invalid_types = {})

\* C7: without the Story_ID column check_key_duplicates ends SKIPPED with no
\* duplicate-key finding; with the column it ends PASSED or FAILED.
C7_KeySkipped ==
    keyRes.verdict # "NONE" =>
        /\ ("Story_ID" \notin df.cols =>
              /\ keyRes.verdict = "SKIPPED"
              /\ keyRes.findings = {}
              /\ keyRes.n_key_dupes = 0)
        /\ ("Story_ID" \in df.cols => keyRes.verdict \in {"PASSED", "FAILED"})

C7_Witness ==
    /\ keyRes.verdict = "SKIPPED"
    /\ NRows(df) >= 2
    /\ \E i, j \in Index(df) : i # j /\ Identical(i, j)

\* The cell is a number strictly below 0.5 or strictly above 100.
OutOfRange(v) == v.kind = "num" /\ (2 * v.n < v.d \/ v.n > 100 * v.d)

\* C8: the range check flags exactly the rows whose Est_Hours is strictly
\* below 0.5 or strictly above 100: 0.5 and 100 are never flagged, -0.5 and
\* 101 always are; the score stage counts the same rows.
C8_RangeBoundary ==
    /\ (bizRes.verdict # "NONE" /\ "Est_Hours" \in bizRes.filtered =>
          \A i \in Index(df) :
              LET v == df.rows[i]["Est_Hours"]
              IN  /\ (i \in bizRes.invalid_hours <=> OutOfRange(v))
                  /\ (v \in {Num(1, 2), Num(100, 1)} => i \notin bizRes.invalid_hours)
                  /\ (v \in {Num(-1, 2), Num(101, 1)} => i \in bizRes.invalid_hours))
    /\ (scoreRes.verdict = "CALCULATED" /\ "Est_Hours" \in df.cols =>
          scoreRes.invalid_hours_count =
              Cardinality({i \in Index(df) : OutOfRange(df.rows[i]["Est_Hours"])}))

C8_Witness ==
    /\ scoreRes.verdict = "CALCULATED"
    /\ "Est_Hours" \in bizRes.filtered
    /\ \E i, j \in Index(df) :
          /\ df.rows[i]["Est_Hours"] = Num(100, 1)
          /\ i \notin bizRes.invalid_hours
          /\ df.rows[j]["Est_Hours"] = Num(101, 1)
          /\ j \in bizRes.invalid_hours
    /\ scoreRes.invalid_hours_count = 1

\* C9: both rows of every identical pair are in the reported duplicate set,
\* a row without an identical other row is not, the count is never 1, and
\* the verdict is PASSED iff the count is 0.
C9_FullDuplicatesSymmetric ==
    fullRes.verdict # "NONE" =>
        /\ \A i, j \in Index(df) :
              i # j /\ Identical(i, j) => {i, j} \subseteq fullRes.dupe_rows
        /\ \A i \in fullRes.dupe_rows :
              \E j \in Index(df) : j # i /\ Identical(i, j)
        /\ fullRes.n_full_dupes = Cardinality(fullRes.dupe_rows)
        /\ fullRes.n_full_dupes # 1
        /\ (fullRes.verdict = "PASSED" <=> fullRes.n_full_dupes = 0)

C9_Witness ==
    /\ fullRes.verdict = "FAILED"
    /\ fullRes.n_full_dupes = 2
    /\ fullRes.dupe_rows = {1, 2}

\* Number of null cells of column c.
NullsIn(c) == Cardinality({i \in Index(df) : df.rows[i][c] = Null})

\* Findings for exactly the columns with a null, the right counts, PASSED
\* iff no column has a null, and on zero rows PASSED with no finding.
NullFindingsShape ==
    /\ {f.col : f \in nullRes.findings} = {c \in df.cols : NullsIn(c) >= 1}
    /\ \A f \in nullRes.findings : f.count = NullsIn(f.col)
    /\ Cardinality(nullRes.findings) = Cardinality({f.col : f \in nullRes.findings})
    /\ (nullRes.verdict = "PASSED" <=> \A c \in df.cols : NullsIn(c) = 0)
    /\ (NRows(df) = 0 => nullRes.verdict = "PASSED" /\ nullRes.findings = {})

\* C10 as stated: the reported percentage equals 100 * nulls / row_count.
C10_NullPercentageExact ==
    nullRes.verdict # "NONE" =>
        /\ NullFindingsShape
        /\ \A f \in nullRes.findings :
              f.pct_tenths * NRows(df) = 10 * 100 * NullsIn(f.col)

\* C10 amended: the reported percentage is 100 * nulls / row_count rounded
\* to one decimal place (within 0.05 of it).
C10_NullPercentageRounded ==
    nullRes.verdict # "NONE" =>
        /\ NullFindingsShape
        /\ \A f \in nullRes.findings :
              2 * Abs(f.pct_tenths * NRows(df) - 10 * 100 * NullsIn(f.col)) <= NRows(df)

C10_Witness ==
    /\ nullRes.verdict = "FAILED"
    /\ NRows(df) = 3
    /\ \E f \in nullRes.findings : f.count = 2 /\ f.pct_tenths = 667
====
